---- MODULE Spec2Model ----
(***************************************************************************)
(* Model of the SanShan-Island stargazing site selector:                   *)
(*   star_observation.py  ObservationPoint, StarObservationSelector        *)
(*   app.py               calculate_ahp_weights, search_star               *)
(*   terrain_service.py   TerrainService                                   *)
(* Angles are whole degrees.  Scores and AHP weights are exact rationals   *)
(* <<numerator, denominator>> in lowest terms (denominator > 0); the       *)
(* rounding of binary floating point is not modelled.                      *)
(***************************************************************************)
EXTENDS Integers, Sequences, FiniteSets, TLC

VARIABLES
    observation_points, \* StarObservationSelector.observation_points, load order
    op,                 \* the operation that ran last
    point_arg,          \* can_observe_azimuth: self (index into observation_points)
    azimuth_arg,        \* can_observe_azimuth: the azimuth argument
    can_observe_ret,    \* can_observe_azimuth: the return value
    preferences,        \* calculate_ahp_weights / search_star: the six ratios
    weights,            \* calculate_ahp_weights: the return value
    star_name,          \* recommend_for_star / search_star: the target name
    star_info,          \* recommend_for_star: what get_star_info returned
    calls,              \* recommend_for_star: the selector methods it invoked, in order
    ranked_points,      \* recommend_for_star: the local ranked_points
    result,             \* recommend_for_star: the return value
    response,           \* search_star: the HTTP response
    score_locals,       \* calculate_score: its locals when it returns
    terrain_cache,      \* the file terrain_cache.json
    target_azimuth,     \* get_wild_spots: the target_azimuth argument
    target_altitude,    \* get_wild_spots: the target_altitude argument
    valid_spots,        \* _analyze_spots: the local valid_spots
    max_ele,            \* _analyze_spots: the local max_ele
    occluded,           \* _analyze_spots: positions in valid_spots that line 144 skipped
    total_scores,       \* _analyze_spots: total_score of every scored position
    scored_spots,       \* _analyze_spots: the local scored_spots after the sort
    spots,              \* get_wild_spots: the return value
    now,                \* datetime.now(), seconds since the service was constructed
    weather_cache,      \* WeatherService._weather_cache
    weather_cache_time, \* WeatherService._weather_cache_time
    forecast_cache,     \* WeatherService._forecast_cache
    forecast_cache_time, \* WeatherService._forecast_cache_time
    requests,           \* the HTTP requests the last weather call made, in order
    weather_ret,        \* get_current_weather: the return value
    forecast_ret,       \* get_hourly_forecast: the return value
    raised,             \* get_current_weather: an exception left the call
    pc,                 \* per thread: its position in get_current_weather
    weather_info,       \* per thread: the local weather_info
    thread_ret          \* per thread: the value get_current_weather returned

vars == <<observation_points, op, point_arg, azimuth_arg, can_observe_ret,
          preferences, weights, star_name, star_info, calls, ranked_points,
          result, response, score_locals, terrain_cache, target_azimuth,
          target_altitude, valid_spots, max_ele, occluded, total_scores,
          scored_spots, spots, now, weather_cache, weather_cache_time,
          forecast_cache, forecast_cache_time, requests, weather_ret,
          forecast_ret, raised, pc, weather_info, thread_ret>>

selector_locals == <<point_arg, azimuth_arg, can_observe_ret, preferences, weights,
                     star_name, star_info, calls, ranked_points, result, response,
                     score_locals>>

shared_weather == <<now, weather_cache, weather_cache_time, forecast_cache,
                    forecast_cache_time>>

weather_vars == <<shared_weather, requests, weather_ret, forecast_ret, raised,
                  pc, weather_info, thread_ret>>

terrain_vars == <<terrain_cache, target_azimuth, target_altitude, valid_spots,
                  max_ele, occluded, total_scores, scored_spots, spots>>

\* ------------------------------------------------------------------ bounds
MaxPoints == 3
MaxRatio == 3
MaxGrid == 7
MaxTicks == 4
MaxThreads == 2

\* --------------------------------------------------------------- rationals
RECURSIVE GCD(_, _)
GCD(a, b) == IF b = 0 THEN a ELSE GCD(b, a % b)

Abs(x) == IF x < 0 THEN -x ELSE x

Norm(n, d) ==
    LET g == GCD(Abs(n), Abs(d))
        s == IF d < 0 THEN -1 ELSE 1
    IN  <<(s * n) \div g, (s * d) \div g>>

Rat(n) == <<n, 1>>
RAdd(x, y) ==
    LET g == GCD(x[2], y[2])
        l == (x[2] \div g) * y[2]
    IN  Norm(x[1] * (l \div x[2]) + y[1] * (l \div y[2]), l)
RMul(x, y) == Norm(x[1] * y[1], x[2] * y[2])
RDiv(x, y) == Norm(x[1] * y[2], x[2] * y[1])
RLess(x, y) == x[1] * y[2] < y[1] * x[2]
RLeq(x, y) == x[1] * y[2] <= y[1] * x[2]
RMax(x, y) == IF RLess(x, y) THEN y ELSE x

\* Python's None
None == [none |-> TRUE]

\* ------------------------------------------------------ observation points
\* ObservationPoint.  bearing stands for the value that
\* _calculate_bearing(avg_lat, avg_lon, latitude, longitude) yields for the
\* point; it is fixed once load_data has run.
Pt(n, lon, lat, diff, vs, ve, b) ==
    [name |-> n, longitude |-> lon, latitude |-> lat, difficulty |-> diff,
     view_start |-> vs, view_end |-> ve, bearing |-> b]

PointSet ==
    { Pt("A", 1, 5, "easy",   350, 10,  0),
      Pt("B", 4, 4, "medium", 30,  90,  60),
      Pt("C", 5, 3, "hard",   0,   120, 90),
      Pt("D", 2, 1, "easy",   120, 240, 200),
      Pt("E", 0, 4, "other",  240, 360, 300),
      Pt("F", 2, 1, "easy",   120, 240, 200),
      Pt("G", 3, 0, "medium", 180, 180, 180) }

RECURSIVE SeqsUpTo(_, _)
SeqsUpTo(S, n) ==
    IF n = 0 THEN { <<>> }
    ELSE LET shorter == SeqsUpTo(S, n - 1)
         IN  shorter \cup { Append(s, x) : s \in shorter, x \in S }

\* azimuths handed to can_observe_azimuth (any number) and azimuths that
\* get_star_info reports (astropy: 0 <= az < 360)
AzimuthArgs == {-5, 0, 5, 10, 30, 60, 90, 100, 180, 200, 350, 355, 360, 365}
TargetAzimuths == {0, 5, 60, 100, 180, 200, 355}
TargetAltitudes == {-10, 0, 1, 30}

\* can_observe_azimuth with "and" for "or" in the wrapping branch
can_observe_azimuth_and(point, azimuth) ==
    LET az == azimuth % 360
    IN  IF point.view_start <= point.view_end
        THEN point.view_start <= az /\ az <= point.view_end
        ELSE az >= point.view_start /\ az <= point.view_end

\* can_observe_azimuth without the test against view_end in the direct branch
can_observe_azimuth_open_end(point, azimuth) ==
    LET az == azimuth % 360
    IN  IF point.view_start <= point.view_end
        THEN point.view_start <= az
        ELSE az >= point.view_start \/ az <= point.view_end

\* ObservationPoint.can_observe_azimuth
can_observe_azimuth(point, azimuth) ==
    LET az == azimuth % 360
    IN  IF point.view_start <= point.view_end
        THEN point.view_start <= az /\ az <= point.view_end
        ELSE az >= point.view_start \/ az <= point.view_end

\* --------------------------------------------------------- scoring engine
RSub(x, y) == RAdd(x, <<-y[1], y[2]>>)
RAbs(x) == <<Abs(x[1]), x[2]>>

\* the difference left as it is
Reduce180_none(d) == d

\* the reduction "if diff > 180: diff = 360 - diff" of calculate_score
Reduce180(d) == IF RLess(Rat(180), d) THEN RSub(Rat(360), d) ELSE d

\* calculate_score, part 1: location_match_score
location_match_score(point, azimuth) ==
    LET angle_diff == Reduce180(RAbs(RSub(Rat(azimuth), Rat(point.bearing))))
    IN  RMax(Rat(0), RMul(Rat(40), RSub(Rat(1), RDiv(angle_diff, Rat(180)))))

\* the centre of a wrapping window averaged without the added 360
view_center_no_wrap(point) == Norm(point.view_start + point.view_end, 2)

\* calculate_score, part 2: view_position_score
view_center(point) ==
    IF point.view_start <= point.view_end
    THEN Norm(point.view_start + point.view_end, 2)
    ELSE LET c == Norm(point.view_start + point.view_end + 360, 2)
         IN  IF RLess(c, Rat(360)) THEN c ELSE RSub(c, Rat(360))

\* view_range without the turn added for a window through north
view_range_no_wrap(point) == point.view_end - point.view_start

view_range(point) ==
    IF point.view_start <= point.view_end
    THEN point.view_end - point.view_start
    ELSE point.view_end + 360 - point.view_start

\* centrality without max(0, ...)
centrality_unclamped(point, azimuth) ==
    LET view_angle_diff == Reduce180(RAbs(RSub(Rat(azimuth), view_center(point))))
    IN  IF view_range(point) > 0
        THEN RSub(Rat(1), RDiv(view_angle_diff, Norm(view_range(point), 2)))
        ELSE Rat(1)

centrality(point, azimuth) ==
    LET view_angle_diff == Reduce180(RAbs(RSub(Rat(azimuth), view_center(point))))
    IN  IF view_range(point) > 0
        THEN LET max_offset == Norm(view_range(point), 2)
             IN  RMax(Rat(0), RSub(Rat(1), RDiv(view_angle_diff, max_offset)))
        ELSE Rat(1)

view_position_score(point, azimuth) == RMul(centrality(point, azimuth), Rat(40))

\* difficulty_val without the branch for hard
difficulty_val_no_hard(point) ==
    IF point.difficulty = "easy" THEN 20
    ELSE IF point.difficulty = "medium" THEN 50
    ELSE 50

\* calculate_score, part 3: difficulty_score.  The source compares the
\* difficulty with the words for easy / medium / hard.
difficulty_val(point) ==
    IF point.difficulty = "easy" THEN 20
    ELSE IF point.difficulty = "medium" THEN 50
    ELSE IF point.difficulty = "hard" THEN 80
    ELSE 50

difficulty_score(point) == RMul(Rat(100 - difficulty_val(point)), <<2, 10>>)

\* StarObservationSelector.calculate_score: it takes no weights
calculate_score(point, azimuth, altitude) ==
    RAdd(RAdd(location_match_score(point, azimuth),
              view_position_score(point, azimuth)),
         difficulty_score(point))

\* the locals of calculate_score when it returns total_score
calculate_score_locals(point, azimuth, altitude) ==
    [location_match_score |-> location_match_score(point, azimuth),
     view_position_score |-> view_position_score(point, azimuth),
     difficulty_score |-> difficulty_score(point),
     total_score |-> calculate_score(point, azimuth, altitude)]

\* -------------------------------------------------------------- ranking
\* StarObservationSelector.find_suitable_points: the loaded points that can
\* observe the azimuth, as indices into observation_points, in load order
RECURSIVE find_suitable_from(_, _, _)
find_suitable_from(points, azimuth, i) ==
    IF i > Len(points) THEN <<>>
    ELSE LET rest == find_suitable_from(points, azimuth, i + 1)
         IN  IF can_observe_azimuth(points[i], azimuth)
             THEN <<i>> \o rest
             ELSE rest

\* find_suitable_points without the can_observe_azimuth test
find_suitable_points_all(points, azimuth) == [i \in 1..Len(points) |-> i]

find_suitable_points(points, azimuth) == find_suitable_from(points, azimuth, 1)

\* an ascending sort that is then reversed: entries of equal score swap
RECURSIVE InsertDescReversed(_, _)
InsertDescReversed(sorted, e) ==
    IF sorted = <<>> THEN <<e>>
    ELSE IF RLess(e.score, Head(sorted).score)
         THEN <<Head(sorted)>> \o InsertDescReversed(Tail(sorted), e)
         ELSE <<e>> \o sorted

\* list.sort(key=score, reverse=True): a stable sort, so an entry goes
\* behind every entry whose score is at least its own
RECURSIVE InsertDesc(_, _)
InsertDesc(sorted, e) ==
    IF sorted = <<>> THEN <<e>>
    ELSE IF RLeq(e.score, Head(sorted).score)
         THEN <<Head(sorted)>> \o InsertDesc(Tail(sorted), e)
         ELSE <<e>> \o sorted

RECURSIVE SortDesc(_)
SortDesc(s) ==
    IF s = <<>> THEN <<>>
    ELSE InsertDesc(SortDesc(SubSeq(s, 1, Len(s) - 1)), s[Len(s)])

\* StarObservationSelector.rank_points
rank_points(points, suitable, azimuth, altitude) ==
    SortDesc([k \in 1..Len(suitable) |->
                [point |-> suitable[k],
                 score |-> calculate_score(points[suitable[k]], azimuth, altitude)]])

\* ------------------------------------------------------------ star info
\* names of BRIGHT_STARS / SOLAR_SYSTEM_BODIES, names only Simbad resolves,
\* and a name nothing resolves
CatalogNames == {"Vega"}
SimbadNames == {"M31"}
StarNames == CatalogNames \cup SimbadNames \cup {"Nibiru"}

\* 'observable' with >= for >
ObservableOnHorizon(altitude) == altitude >= 0

\* get_star_info: 'observable': bool(altitude > 0)
Observable(altitude) == altitude > 0

StarInfo(name, az, alt) ==
    [name |-> name, azimuth |-> az, altitude |-> alt, observable |-> Observable(alt)]

\* StarObservationSelector.get_star_info: the values it can return for a
\* name; azimuth and altitude depend on the observation time, the Simbad
\* lookup on the network.
get_star_info(name) ==
    LET infos == { StarInfo(name, az, alt) : az \in TargetAzimuths, alt \in TargetAltitudes }
    IN  IF name \in CatalogNames THEN infos
        ELSE IF name \in SimbadNames THEN infos \cup {None}
        ELSE {None}

\* ------------------------------------------------------- recommendation
\* one entry of 'best_point' / 'all_points'
PointEntry(point, score) ==
    [name |-> point.name, longitude |-> point.longitude, latitude |-> point.latitude,
     difficulty |-> point.difficulty, view_start |-> point.view_start,
     view_end |-> point.view_end, score |-> score]

\* the last entry taken for the first
best_of_last(ranked) == ranked[Len(ranked)]

\* "best_point, best_score = ranked_points[0]"
best_of(ranked) == ranked[1]

\* StarObservationSelector.recommend_for_star, given what get_star_info
\* returned: the methods called, the local ranked_points, the return value
recommend_for_star(points, info) ==
    IF info = None
    THEN [calls |-> <<"get_star_info">>, ranked |-> <<>>, result |-> None]
    ELSE IF ~info.observable
    THEN [calls |-> <<"get_star_info">>, ranked |-> <<>>, result |-> None]
    ELSE LET suitable == find_suitable_points(points, info.azimuth)
         IN  IF suitable = <<>>
             THEN [calls |-> <<"get_star_info", "find_suitable_points">>,
                   ranked |-> <<>>, result |-> None]
             ELSE LET ranked == rank_points(points, suitable, info.azimuth, info.altitude)
                      best == best_of(ranked)
                  IN  [calls |-> <<"get_star_info", "find_suitable_points", "rank_points">>,
                       ranked |-> ranked,
                       result |->
                         [star_info |-> info,
                          best_point |-> PointEntry(points[best.point], best.score),
                          all_points |-> [k \in 1..Len(ranked) |->
                                PointEntry(points[ranked[k].point], ranked[k].score)]]]

\* ------------------------------------------------- weight resolver (AHP)
AhpKeys == {"loc_vs_view", "loc_vs_diff", "view_vs_diff",
            "loc_vs_lp", "view_vs_lp", "diff_vs_lp"}

\* float(preferences.get(key, 1))
Get(prefs, key) == IF key \in DOMAIN prefs THEN prefs[key] ELSE Rat(1)

\* the ratios a, b, c, d, e, f in the order of lines 104-111
Ratios(prefs) ==
    <<Get(prefs, "loc_vs_view"), Get(prefs, "loc_vs_diff"), Get(prefs, "view_vs_diff"),
      Get(prefs, "loc_vs_lp"), Get(prefs, "view_vs_lp"), Get(prefs, "diff_vs_lp")>>

Inv(x) == RDiv(Rat(1), x)

\* the reciprocal comparison matrix of lines 113-118
Matrix(r) ==
    << <<Rat(1),    r[1],      r[2],      r[4]>>,
       <<Inv(r[1]), Rat(1),    r[3],      r[5]>>,
       <<Inv(r[2]), Inv(r[3]), Rat(1),    r[6]>>,
       <<Inv(r[4]), Inv(r[5]), Inv(r[6]), Rat(1)>> >>

Sum4(q) == RAdd(RAdd(q[1], q[2]), RAdd(q[3], q[4]))

\* the sums of the rows taken for the sums of the columns
row_sums(matrix) == [i \in 1..4 |-> Sum4(matrix[i])]

\* col_sums = [sum(row[i] for row in matrix) for i in range(n)]
col_sums(matrix) == [j \in 1..4 |-> Sum4([i \in 1..4 |-> matrix[i][j]])]

\* norm_matrix and weights_list of lines 124-126
weights_list(matrix) ==
    LET cs == col_sums(matrix)
        norm_matrix == [i \in 1..4 |-> [j \in 1..4 |-> RDiv(matrix[i][j], cs[j])]]
    IN  [i \in 1..4 |-> RDiv(Sum4(norm_matrix[i]), Rat(4))]

\* a division of the try block raises ZeroDivisionError: 1/ratio for a ratio
\* of 0 (lines 115-117), or a column whose sum is 0 (line 124)
zero_division(r) ==
    \/ \E k \in 1..6 : r[k][1] = 0
    \/ LET cs == col_sums(Matrix(r))
       IN  \E j \in 1..4 : cs[j][1] = 0

WeightRecord(w) ==
    [location |-> w[1], view |-> w[2], difficulty |-> w[3], light_pollution |-> w[4]]

\* the except branch handing out the historical default weights
calculate_ahp_weights_default(prefs) ==
    IF zero_division(Ratios(prefs))
    THEN WeightRecord(<<<<2, 5>>, <<2, 5>>, <<1, 5>>, <<0, 1>>>>)
    ELSE WeightRecord(weights_list(Matrix(Ratios(prefs))))

\* app.calculate_ahp_weights: the except branch returns None
calculate_ahp_weights(prefs) ==
    IF zero_division(Ratios(prefs))
    THEN None
    ELSE WeightRecord(weights_list(Matrix(Ratios(prefs))))

\* the ratios a request may carry: the scale 1/MaxRatio .. MaxRatio, a zero
\* and a negative number
RatioSet == {Rat(0), Rat(-1), Rat(1), Rat(MaxRatio), <<1, MaxRatio>>}
PreferenceSet ==
    [AhpKeys -> RatioSet] \cup [{"loc_vs_view", "loc_vs_diff", "view_vs_diff"} -> RatioSet]

\* ------------------------------------------------------------ /api/search
\* "def recommend_for_star(self, star_name, obs_time=None)": the most
\* positional arguments a caller may pass
recommend_for_star_max_args == 2

\* "selector.recommend_for_star(star_name, obs_time, weights)": the
\* positional arguments search_star passes
search_star_call_args == 3

\* LightPollutionService.get_pollution_data for a point whose name holds none
\* of the keywords and whose geo_hash is 0: sqm 20.45 - 0.05, in hundredths
get_pollution_data(name, lat, lon) == [sqm |-> 2040, bortle |-> 5, radiance |-> 21]

\* what weather_service.get_current_weather() hands to search_star
WeatherOutcomes == {None, [stargazing_score |-> 80]}

\* "point.update(lp_data)" and the injection of the weather score, which
\* happens only "if 'score_details' in point"
Inject(entry, weather_score) ==
    LET lp == get_pollution_data(entry.name, entry.latitude, entry.longitude)
        keys == DOMAIN entry \cup DOMAIN lp
        merged == [k \in keys |-> IF k \in DOMAIN lp THEN lp[k] ELSE entry[k]]
    IN  IF "score_details" \in DOMAIN entry
        THEN [merged EXCEPT !["score_details"] =
                 [j \in DOMAIN @ \cup {"weather"} |->
                     IF j = "weather" THEN weather_score ELSE @[j]]]
        ELSE merged

\* search_star up to the call of recommend_for_star: the weights it
\* computed, and the response when it ends there.  Passing more positional
\* arguments than the method takes raises TypeError, which the outer
\* except (line 216) turns into a 500
search_star_head(name, prefs) ==
    IF name = ""
    THEN [weights |-> None, response |-> [status |-> 400, error |-> "no star name"]]
    ELSE LET w == IF prefs = None THEN None ELSE calculate_ahp_weights(prefs)
         IN  IF search_star_call_args > recommend_for_star_max_args
             THEN [weights |-> w, response |-> [status |-> 500, error |-> "TypeError"]]
             ELSE [weights |-> w, response |-> None]

\* search_star from the return of recommend_for_star on
search_star_tail(r, weather) ==
    LET weather_score == IF weather # None THEN weather.stargazing_score ELSE 60
    IN  IF r = None
        THEN [status |-> 404, error |-> "not found"]
        ELSE [status |-> 200,
              star_info |-> r.star_info,
              best_point |-> Inject(r.best_point, weather_score),
              all_points |-> [k \in 1..Len(r.all_points) |->
                                 Inject(r.all_points[k], weather_score)],
              weather_info |-> weather]

\* the ahp_preferences a search request may carry (None: the key is absent)
SearchPreferences ==
    { None,
      [k \in AhpKeys |-> Rat(1)],
      [k \in AhpKeys |-> IF k = "loc_vs_view" THEN Rat(0) ELSE Rat(1)],
      [k \in AhpKeys |-> IF k = "loc_vs_view" THEN Rat(MaxRatio) ELSE Rat(1)] }

\* ================================================================ terrain
\* terrain_service.py  TerrainService.  An elevation sample is
\* [site, elevation]: site names the (latitude, longitude) pair of the
\* sample, elevation is in centimetres.  The sites:
\*   A  (31.02, 120.29)          B  50 m north of A     N  5 m north of A
\*   H  12 m north of A          E  50 m east of A      L  100 m north of A
\*   F1 (31.035, 120.300)        F2 (31.025, 120.290)   F3 (31.030, 120.400)
\*   F4 (31.018, 120.310)        F5 (31.044, 120.312)   F6 (31.022, 120.278)
\*   F7 (31.031, 120.305)        F8 (31.027, 120.300)
\* The tables hold what the source's formulas give for these coordinates,
\* to a thousandth of a degree and a decimetre.
Sample(s, e) == [site |-> s, elevation |-> e]

\* an argument that was given (a float) as opposed to None
Some(v) == [value |-> v]

\* MIN_ELEVATION = 5.0, in centimetres
MIN_ELEVATION == 500

\* the altitude above which no terrain is taken to occlude, in degrees
occlusion_altitude_limit == 60

\* the half-width of the occlusion sector, in thousandths of a degree
occlusion_sector == 10000

\* the distance below which a neighbour is ignored, in decimetres
occlusion_min_distance == 100

\* the number of spots returned
top_spots == 10

\* _calculate_bearing between two sites, in thousandths of a degree
BearingTable ==
    [ A |-> [A |-> 0, B |-> 0, N |-> 0, H |-> 0, E |-> 90000, L |-> 0, F1 |-> 29736, F2 |-> 0, F3 |-> 83916, F4 |-> 96650, F5 |-> 38143, F6 |-> 281009, F7 |-> 49441, F8 |-> 50754],
      B |-> [A |-> 180000, B |-> 0, N |-> 180000, H |-> 180000, E |-> 135000, L |-> 0, F1 |-> 30493, F2 |-> 0, F3 |-> 84186, F4 |-> 98129, F5 |-> 38671, F6 |-> 278576, F7 |-> 50618, F8 |-> 52604],
      N |-> [A |-> 180000, B |-> 0, N |-> 0, H |-> 0, E |-> 95711, L |-> 0, F1 |-> 29810, F2 |-> 0, F3 |-> 83943, F4 |-> 96799, F5 |-> 38195, F6 |-> 280767, F7 |-> 49556, F8 |-> 50935],
      H |-> [A |-> 180000, B |-> 0, N |-> 180000, H |-> 0, E |-> 103496, L |-> 0, F1 |-> 29914, F2 |-> 0, F3 |-> 83981, F4 |-> 97006, F5 |-> 38268, F6 |-> 280428, F7 |-> 49719, F8 |-> 51189],
      E |-> [A |-> 270000, B |-> 315000, N |-> 275711, H |-> 283496, E |-> 0, L |-> 333435, F1 |-> 28424, F2 |-> 354861, F3 |-> 83887, F4 |-> 96828, F5 |-> 37473, F6 |-> 280558, F7 |-> 48430, F8 |-> 49234],
      L |-> [A |-> 180000, B |-> 180000, N |-> 180000, H |-> 180000, E |-> 153435, L |-> 0, F1 |-> 31285, F2 |-> 0, F3 |-> 84457, F4 |-> 99596, F5 |-> 39210, F6 |-> 276112, F7 |-> 51836, F8 |-> 54550],
      F1 |-> [A |-> 209741, B |-> 210498, N |-> 209815, H |-> 209920, E |-> 208429, L |-> 211290, F1 |-> 0, F2 |-> 220596, F3 |-> 93314, F4 |-> 153246, F5 |-> 48800, F6 |-> 235416, F7 |-> 133033, F8 |-> 180000],
      F2 |-> [A |-> 180000, B |-> 180000, N |-> 180000, H |-> 180000, E |-> 174861, L |-> 180000, F1 |-> 40591, F2 |-> 0, F3 |-> 86935, F4 |-> 112211, F5 |-> 44769, F6 |-> 253740, F7 |-> 64973, F8 |-> 76860],
      F3 |-> [A |-> 263973, B |-> 264243, N |-> 264000, H |-> 264038, E |-> 263944, L |-> 264514, F1 |-> 273365, F2 |-> 266992, F3 |-> 0, F4 |-> 261179, F5 |-> 280541, F6 |-> 265656, F7 |-> 270728, F8 |-> 268021],
      F4 |-> [A |-> 276661, B |-> 278139, N |-> 276809, H |-> 277016, E |-> 276838, L |-> 279606, F1 |-> 333251, F2 |-> 292221, F3 |-> 81133, F4 |-> 0, F5 |-> 3771, F6 |-> 278307, F7 |-> 341759, F8 |-> 316406],
      F5 |-> [A |-> 218154, B |-> 218682, N |-> 218207, H |-> 218280, E |-> 217484, L |-> 219222, F1 |-> 228806, F2 |-> 224780, F3 |-> 100496, F4 |-> 183772, F5 |-> 0, F6 |-> 232951, F7 |-> 204769, F8 |-> 211170],
      F6 |-> [A |-> 101003, B |-> 98570, N |-> 100761, H |-> 100422, E |-> 100552, L |-> 96106, F1 |-> 55405, F2 |-> 73733, F3 |-> 85593, F4 |-> 98290, F5 |-> 52933, F6 |-> 0, F7 |-> 68738, F8 |-> 75141],
      F7 |-> [A |-> 229448, B |-> 230625, N |-> 229564, H |-> 229727, E |-> 228438, L |-> 231844, F1 |-> 313035, F2 |-> 244981, F3 |-> 90679, F4 |-> 161757, F5 |-> 24765, F6 |-> 248752, F7 |-> 0, F8 |-> 226968],
      F8 |-> [A |-> 230759, B |-> 232609, N |-> 230940, H |-> 231195, E |-> 229239, L |-> 234555, F1 |-> 0, F2 |-> 256865, F3 |-> 87969, F4 |-> 136401, F5 |-> 31164, F6 |-> 255152, F7 |-> 46966, F8 |-> 0] ]

\* _calculate_distance between two sites, in decimetres
DistanceTable ==
    [ A |-> [A |-> 0, B |-> 500, N |-> 50, H |-> 120, E |-> 500, L |-> 1000, F1 |-> 19209, F2 |-> 5560, F3 |-> 105405, F4 |-> 19188, F5 |-> 33935, F6 |-> 11649, F7 |-> 18812, F8 |-> 12304],
      B |-> [A |-> 500, B |-> 0, N |-> 450, H |-> 380, E |-> 707, L |-> 500, F1 |-> 18777, F2 |-> 5060, F3 |-> 105353, F4 |-> 19252, F5 |-> 33543, F6 |-> 11564, F7 |-> 18491, F8 |-> 11994],
      N |-> [A |-> 50, B |-> 450, N |-> 0, H |-> 70, E |-> 502, L |-> 950, F1 |-> 19166, F2 |-> 5510, F3 |-> 105399, F4 |-> 19194, F5 |-> 33896, F6 |-> 11640, F7 |-> 18780, F8 |-> 12272],
      H |-> [A |-> 120, B |-> 380, N |-> 70, H |-> 0, E |-> 514, L |-> 880, F1 |-> 19105, F2 |-> 5440, F3 |-> 105392, F4 |-> 19202, F5 |-> 33841, F6 |-> 11627, F7 |-> 18734, F8 |-> 12228],
      E |-> [A |-> 500, B |-> 707, N |-> 502, H |-> 514, E |-> 0, L |-> 1118, F1 |-> 18966, F2 |-> 5582, F3 |-> 104907, F4 |-> 18691, F5 |-> 33628, F6 |-> 12140, F7 |-> 18435, F8 |-> 11921],
      L |-> [A |-> 1000, B |-> 500, N |-> 950, H |-> 880, E |-> 1118, L |-> 0, F1 |-> 18347, F2 |-> 4560, F3 |-> 105303, F4 |-> 19329, F5 |-> 33154, F6 |-> 11500, F7 |-> 18178, F8 |-> 11697],
      F1 |-> [A |-> 19209, B |-> 18777, N |-> 19166, H |-> 19105, E |-> 18966, L |-> 18347, F1 |-> 0, F2 |-> 14643, F3 |-> 95442, F4 |-> 21169, F5 |-> 15194, F6 |-> 25463, F7 |-> 6518, F8 |-> 8896],
      F2 |-> [A |-> 5560, B |-> 5060, N |-> 5510, H |-> 5440, E |-> 5582, L |-> 4560, F1 |-> 14643, F2 |-> 0, F3 |-> 104961, F4 |-> 20586, F5 |-> 29761, F6 |-> 11911, F7 |-> 15773, F8 |-> 9785],
      F3 |-> [A |-> 105405, B |-> 105353, N |-> 105399, H |-> 105392, E |-> 104907, L |-> 105303, F1 |-> 95442, F2 |-> 104961, F3 |-> 0, F4 |-> 86792, F5 |-> 85276, F6 |-> 116590, F7 |-> 90525, F8 |-> 95343],
      F4 |-> [A |-> 19188, B |-> 19252, N |-> 19194, H |-> 19202, E |-> 18691, L |-> 19329, F1 |-> 21169, F2 |-> 20586, F3 |-> 86792, F4 |-> 0, F5 |-> 28973, F6 |-> 30816, F7 |-> 15220, F8 |-> 13819],
      F5 |-> [A |-> 33935, B |-> 33543, N |-> 33896, H |-> 33841, E |-> 33628, L |-> 33154, F1 |-> 15194, F2 |-> 29761, F3 |-> 85276, F4 |-> 28973, F5 |-> 0, F6 |-> 40594, F7 |-> 15920, F8 |-> 22092],
      F6 |-> [A |-> 11649, B |-> 11564, N |-> 11640, H |-> 11627, E |-> 12140, L |-> 11500, F1 |-> 25463, F2 |-> 11911, F3 |-> 116590, F4 |-> 30816, F5 |-> 40594, F6 |-> 0, F7 |-> 27605, F8 |-> 21688],
      F7 |-> [A |-> 18812, B |-> 18491, N |-> 18780, H |-> 18734, E |-> 18435, L |-> 18178, F1 |-> 6518, F2 |-> 15773, F3 |-> 90525, F4 |-> 15220, F5 |-> 15920, F6 |-> 27605, F7 |-> 0, F8 |-> 6518],
      F8 |-> [A |-> 12304, B |-> 11994, N |-> 12272, H |-> 12228, E |-> 11921, L |-> 11697, F1 |-> 8896, F2 |-> 9785, F3 |-> 95343, F4 |-> 13819, F5 |-> 22092, F6 |-> 21688, F7 |-> 6518, F8 |-> 0] ]

\* _calculate_bearing from (center_lat, center_lon) to a site, in thousandths of a degree
CentreBearingTable ==
    [ A |-> 203195, B |-> 204164, N |-> 203289, H |-> 203421, E |-> 200983, L |-> 205213, F1 |-> 40591, F2 |-> 220595, F3 |-> 89973, F4 |-> 133028, F5 |-> 46131, F6 |-> 241231, F7 |-> 83341, F8 |-> 124998 ]

\* dist * 1000 for the distance in degrees between a site and (center_lat, center_lon), in thousandths
CentreDistanceTable ==
    [ A |-> 11180, B |-> 10780, N |-> 11140, H |-> 11084, E |-> 10956, L |-> 10384, F1 |-> 7071, F2 |-> 7071, F3 |-> 105000, F4 |-> 19209, F5 |-> 22023, F6 |-> 18788, F7 |-> 10050, F8 |-> 5831 ]

calculate_bearing(p, q) == BearingTable[p][q]

calculate_distance(p, q) == DistanceTable[p][q]

\* 1000 * tan(a) for the altitudes a call can carry: atan2(dy, dx) > a
\* for dx > 0 and 0 <= a < 90 is dy / dx > tan(a)
tan_milli(a) ==
    CASE a = 10 -> 176
      [] a = 45 -> 1000
      [] a = 60 -> 1732
      [] a = 61 -> 1804

\* angle_diff of _check_occlusion and _analyze_spots, thousandths of a degree
angle_diff(bearing, azimuth) ==
    LET d == Abs(bearing - azimuth * 1000)
    IN  IF d > 180000 THEN 360000 - d ELSE d

\* the loop body with the difference of elevation taken without its sign
occludes_either_way(point, other, azimuth, altitude) ==
    /\ other # point
    /\ other.elevation # point.elevation
    /\ angle_diff(calculate_bearing(point.site, other.site), azimuth) < occlusion_sector
    /\ calculate_distance(point.site, other.site) >= occlusion_min_distance
    /\ Abs(other.elevation - point.elevation) * 100
         > tan_milli(altitude) * calculate_distance(point.site, other.site)

\* the loop body without the "too near" test
occludes_any_distance(point, other, azimuth, altitude) ==
    /\ other # point
    /\ other.elevation > point.elevation
    /\ angle_diff(calculate_bearing(point.site, other.site), azimuth) < occlusion_sector
    /\ (other.elevation - point.elevation) * 100
         > tan_milli(altitude) * calculate_distance(point.site, other.site)

\* _check_occlusion, the body of the loop: other makes the loop return True
occludes(point, other, azimuth, altitude) ==
    /\ other # point
    /\ other.elevation > point.elevation
    /\ angle_diff(calculate_bearing(point.site, other.site), azimuth) < occlusion_sector
    /\ calculate_distance(point.site, other.site) >= occlusion_min_distance
    /\ (other.elevation - point.elevation) * 100
         > tan_milli(altitude) * calculate_distance(point.site, other.site)

\* _check_occlusion without the cut-off for high targets
check_occlusion_no_limit(point, all_points, t_azimuth, t_altitude) ==
    IF t_altitude = None
    THEN FALSE
    ELSE \E k \in 1..Len(all_points) :
            occludes(point, all_points[k], t_azimuth.value, t_altitude.value)

\* TerrainService._check_occlusion
check_occlusion(point, all_points, t_azimuth, t_altitude) ==
    IF t_altitude = None \/ t_altitude.value > occlusion_altitude_limit
    THEN FALSE
    ELSE \E k \in 1..Len(all_points) :
            occludes(point, all_points[k], t_azimuth.value, t_altitude.value)

\* a filter that keeps the samples at the water level
valid_spots_of_inclusive(points) ==
    SelectSeq(points, LAMBDA p : p.elevation >= MIN_ELEVATION)

\* _analyze_spots, line 129
valid_spots_of(points) ==
    SelectSeq(points, LAMBDA p : p.elevation > MIN_ELEVATION)

RECURSIVE max_elevation(_)
max_elevation(points) ==
    IF Len(points) = 1 THEN points[1].elevation
    ELSE LET m == max_elevation(Tail(points))
         IN  IF points[1].elevation > m THEN points[1].elevation ELSE m

ele_score(p, max) == IF max > 0 THEN Norm(p.elevation * 100, max) ELSE Rat(0)

RMin(x, y) == IF RLess(y, x) THEN y ELSE x

dist_score(p) == RMin(Norm(CentreDistanceTable[p.site], 1000), Rat(100))

dir_score(p, t_azimuth) ==
    IF t_azimuth # None
    THEN LET d == angle_diff(CentreBearingTable[p.site], t_azimuth.value)
         IN  RMax(Rat(0), RMul(Rat(100), RSub(Rat(1), Norm(d, 180000))))
    ELSE Rat(50)

\* the three-term sum whether or not an azimuth was given
total_score_directional(p, max, t_azimuth) ==
    RAdd(RAdd(RMul(<<3, 10>>, ele_score(p, max)), RMul(<<1, 10>>, dist_score(p))),
         RMul(<<6, 10>>, dir_score(p, t_azimuth)))

\* _analyze_spots, lines 171-174
total_score(p, max, t_azimuth) ==
    IF t_azimuth # None
    THEN RAdd(RAdd(RMul(<<3, 10>>, ele_score(p, max)), RMul(<<1, 10>>, dist_score(p))),
              RMul(<<6, 10>>, dir_score(p, t_azimuth)))
    ELSE RAdd(RMul(<<7, 10>>, ele_score(p, max)), RMul(<<3, 10>>, dist_score(p)))

\* round(x, 1) for x >= 0: the nearest tenth, a half going to the even tenth
round1(x) ==
    LET t == (x[1] * 10) \div x[2]
        r == 2 * ((x[1] * 10) % x[2])
    IN  IF r > x[2] \/ (r = x[2] /\ t % 2 = 1) THEN Norm(t + 1, 10) ELSE Norm(t, 10)

\* scored_spots[:10]
first_spots(s) == SubSeq(s, 1, IF Len(s) < top_spots THEN Len(s) ELSE top_spots)

\* TerrainService._analyze_spots: its locals when it returns.  occluded is
\* the set of positions in valid_spots that line 144 skipped, total_scores
\* the total_score of every other position; a spot carries, besides the
\* keys of the dict, the position in valid_spots of its sample
analyze_spots(points, t_azimuth, t_altitude) ==
    LET valid == valid_spots_of(points)
    IN  IF valid = <<>>
        THEN [valid_spots |-> <<>>, max_ele |-> 0, occluded |-> {},
              total_scores |-> <<>>, scored_spots |-> <<>>, spots |-> <<>>]
        ELSE
          LET max  == max_elevation(valid)
              skip == IF t_azimuth # None /\ t_altitude # None
                      THEN { k \in 1..Len(valid) :
                               check_occlusion(valid[k], valid, t_azimuth, t_altitude) }
                      ELSE {}
              kept == SelectSeq([k \in 1..Len(valid) |-> k], LAMBDA k : k \notin skip)
              tot  == [k \in (1..Len(valid)) \ skip |-> total_score(valid[k], max, t_azimuth)]
              scored == SortDesc([j \in 1..Len(kept) |->
                                    [sample    |-> kept[j],
                                     site      |-> valid[kept[j]].site,
                                     elevation |-> valid[kept[j]].elevation,
                                     score     |-> round1(tot[kept[j]]),
                                     type      |-> "wild"]])
          IN  [valid_spots |-> valid, max_ele |-> max, occluded |-> skip,
               total_scores |-> tot, scored_spots |-> scored, spots |-> first_spots(scored)]

\* terrain_cache.json: absent, or a file holding a list of samples
NoCacheFile == [exists |-> FALSE, data |-> <<>>]

CacheFile(points) == [exists |-> TRUE, data |-> points]

\* TerrainService.get_wild_spots: the external API is disabled, so without
\* the cache file the answer is the empty list
get_wild_spots(cache, t_azimuth, t_altitude) ==
    IF cache.exists /\ cache.data # <<>>
    THEN analyze_spots(cache.data, t_azimuth, t_altitude)
    ELSE IF cache.exists
         THEN analyze_spots(cache.data, t_azimuth, t_altitude)
         ELSE [valid_spots |-> <<>>, max_ele |-> 0, occluded |-> {},
               total_scores |-> <<>>, scored_spots |-> <<>>, spots |-> <<>>]

\* the samples a cache file is drawn from: any of the first group, in this
\* order, followed by the first samples of the second
GroupSamples ==
    << Sample("A", 1000), Sample("B", 5000), Sample("N", 3000),
       Sample("H", 5500), Sample("E", 5000), Sample("L", 500) >>

GridSamples ==
    << Sample("F1", 2000), Sample("F2", 2000), Sample("F3", 3500), Sample("F4", 4200),
       Sample("F5", 1500), Sample("F6", 2500), Sample("F7", 800), Sample("F8", 1200) >>

Pick(S) == SelectSeq(GroupSamples, LAMBDA p : p.site \in S)

TerrainCaches ==
    {NoCacheFile} \cup
    { CacheFile(Pick(S) \o SubSeq(GridSamples, 1, k)) :
        S \in SUBSET {"A", "B", "N", "H", "E", "L"},
        k \in 0..(IF MaxGrid < Len(GridSamples) THEN MaxGrid ELSE Len(GridSamples)) }

WildAzimuths == {None, Some(0), Some(10), Some(90), Some(180), Some(355)}
WildAltitudes == {None, Some(10), Some(45), Some(60), Some(61)}

\* ---------------------------------------------------------- weather service
\* weather_service.py  WeatherService.  The clock now is in seconds; an
\* hourly time stamp 'YYYY-MM-DDTHH:00' is the number of the hour since
\* the clock's zero (string order on the stamps is the order of these
\* numbers).  A weather dict keeps the keys the service reads back; its
\* cloud_cover is Some(n) for a number and None for a JSON null.
\* fetched_at is not a key of the dict: it records when the fetch that
\* built the dict answered.
cache_duration == 1800

\* the number of entries of a forecast
forecast_hours == 12

\* the freshness test with <= for <
cache_fresh_inclusive(cache_time, t) == t - cache_time.value <= cache_duration

\* lines 27 and 64: (datetime.now() - cache_time).total_seconds() < _cache_duration
cache_fresh(cache_time, t) == t - cache_time.value < cache_duration

\* round(n / d) for n >= 0: the nearest integer, a half going to the even one
round_half_even(n, d) ==
    LET q == n \div d
        r == 2 * (n % d)
    IN  IF r > d \/ (r = d /\ q % 2 = 1) THEN q + 1 ELSE q

\* what _fetch_open_meteo and _fetch_chinese_weather return on success
OpenMeteo(cloud) ==
    [temperature |-> 12, humidity |-> 70, cloud_cover |-> cloud, wind_speed |-> 5,
     weather_code |-> 0, source |-> "Open-Meteo"]

SoJson(cloud) ==
    [temperature |-> 12, humidity |-> 70, cloud_cover |-> cloud, wind_speed |-> 10,
     weather_code |-> 0, source |-> "CN (SoJson)"]

\* _fetch_open_meteo: None (status not 200, or an exception it caught), or
\* a dict whose cloud_cover is the hourly value, null included
PrimaryOutcomes == {None, OpenMeteo(Some(0)), OpenMeteo(None)}

\* _fetch_chinese_weather: None, or a dict with the cloud cover it guessed
FallbackOutcomes == {None, SoJson(Some(90))}

\* lines 32-36 with the fallback asked in every case
fetch_weather_info_both(primary, fallback) ==
    [info     |-> IF primary # None THEN primary ELSE fallback,
     requests |-> <<[to |-> "open_meteo", result |-> primary],
                    [to |-> "sojson", result |-> fallback]>>]

\* get_current_weather, lines 32-36: the dict fetched and the requests made
fetch_weather_info(primary, fallback) ==
    IF primary # None
    THEN [info |-> primary, requests |-> <<[to |-> "open_meteo", result |-> primary]>>]
    ELSE [info     |-> fallback,
          requests |-> <<[to |-> "open_meteo", result |-> primary],
                         [to |-> "sojson", result |-> fallback]>>]

\* _calculate_astronomy with the moon below the horizon (the values of
\* line 260)
calculate_astronomy ==
    [moon_phase |-> 0, moon_phase_text |-> "unknown", moon_altitude |-> -90]

\* _calculate_moon_interference, the branch of a moon more than 18 degrees
\* below the horizon
calculate_moon_interference(moon_phase, moon_altitude) ==
    CASE moon_altitude < -18 -> 0

get_condition_text(score) ==
    IF score >= 80 THEN "excellent"
    ELSE IF score >= 60 THEN "good"
    ELSE IF score >= 40 THEN "fair"
    ELSE IF score >= 20 THEN "poor"
    ELSE "unsuitable"

\* weather_info.update(astronomy) and _calculate_score(weather_info):
\* 100 - cloud_cover raises TypeError for a null cloud_cover
weather_score_raises(info) == info.cloud_cover = None

weather_with_score(info, t) ==
    LET astronomy == calculate_astronomy
        cloud_score == IF 100 - info.cloud_cover.value > 0
                       THEN 100 - info.cloud_cover.value ELSE 0
        moon_interference ==
            calculate_moon_interference(astronomy.moon_phase, astronomy.moon_altitude)
        moon_score == 100 - moon_interference
        stargazing_score == round_half_even(7 * cloud_score + 3 * moon_score, 10)
    IN  [temperature |-> info.temperature, humidity |-> info.humidity,
         cloud_cover |-> info.cloud_cover, wind_speed |-> info.wind_speed,
         weather_code |-> info.weather_code, source |-> info.source,
         moon_phase |-> astronomy.moon_phase,
         moon_phase_text |-> astronomy.moon_phase_text,
         moon_altitude |-> astronomy.moon_altitude,
         stargazing_score |-> stargazing_score,
         condition_text |-> get_condition_text(stargazing_score),
         moon_score |-> moon_score, moon_interference |-> moon_interference,
         fetched_at |-> t]

\* the keys of a weather dict that get_current_weather built
WeatherKeys ==
    {"temperature", "humidity", "cloud_cover", "wind_speed", "weather_code", "source",
     "moon_phase", "moon_phase_text", "moon_altitude", "stargazing_score", "condition_text", "moon_score",
     "moon_interference", "fetched_at"}

\* get_current_weather, the body of its try (lines 31-52): the dict it
\* would cache and return (None for the early return of line 39), the
\* requests it made, and whether an exception ended it
refresh_weather(t, primary, fallback) ==
    LET f == fetch_weather_info(primary, fallback)
    IN  IF f.info = None
        THEN [info |-> None, requests |-> f.requests, exception |-> FALSE]
        ELSE IF weather_score_raises(f.info)
        THEN [info |-> None, requests |-> f.requests, exception |-> TRUE]
        ELSE [info |-> weather_with_score(f.info, t), requests |-> f.requests,
              exception |-> FALSE]

\* WeatherService.get_current_weather at time t: the return value, the two
\* cache fields afterwards, the requests it made, and whether an exception
\* left it (the except of line 54 catches every one and returns None)
get_current_weather(cache, cache_time, t, primary, fallback) ==
    IF cache # None /\ cache_time # None /\ cache_fresh(cache_time, t)
    THEN [ret |-> cache, weather_cache |-> cache, weather_cache_time |-> cache_time,
          requests |-> <<>>, raised |-> FALSE]
    ELSE LET r == refresh_weather(t, primary, fallback)
         IN  IF r.exception \/ r.info = None
             THEN [ret |-> None, weather_cache |-> cache, weather_cache_time |-> cache_time,
                   requests |-> r.requests, raised |-> FALSE]
             ELSE [ret |-> r.info, weather_cache |-> r.info, weather_cache_time |-> Some(t),
                   requests |-> r.requests, raised |-> FALSE]

\* the hour stamp of a time: now.strftime('%Y-%m-%dT%H:00')
current_hour(t) == t \div 3600

\* the 'hourly' object of a forecast answer: the time stamps and, per
\* stamp, the three values
Hourly(times, n) ==
    [time |-> times,
     temperature_2m      |-> [i \in 1..n |-> 100 + i],
     relativehumidity_2m |-> [i \in 1..n |-> 60 + i],
     cloudcover          |-> [i \in 1..n |-> 10 + i]]

FromTo(a, b) == [i \in 1..(b - a + 1) |-> a + i - 1]

\* what requests.get gives get_hourly_forecast: an exception, a status
\* other than 200, or a body: without hours, with past hours only, with
\* more hours than a forecast holds, starting after the current hour, or
\* with fewer values than stamps
ForecastAnswers ==
    { [raises |-> TRUE],
      [raises |-> FALSE, status_code |-> 500],
      [raises |-> FALSE, status_code |-> 200, hourly |-> Hourly(<<>>, 0)],
      [raises |-> FALSE, status_code |-> 200, hourly |-> Hourly(<<0>>, 1)],
      [raises |-> FALSE, status_code |-> 200, hourly |-> Hourly(FromTo(0, 13), 14)],
      [raises |-> FALSE, status_code |-> 200, hourly |-> Hourly(FromTo(1, 3), 3)],
      [raises |-> FALSE, status_code |-> 200, hourly |-> Hourly(FromTo(0, 2), 1)] }

\* lines 91-95: the first index whose stamp is not before the current
\* hour, the first index of all when there is none (indices from 1)
start_idx(times, hour) ==
    IF \E i \in 1..Len(times) : times[i] >= hour
    THEN CHOOSE i \in 1..Len(times) :
            /\ times[i] >= hour
            /\ \A j \in 1..(i - 1) : times[j] < hour
    ELSE 1

\* lines 99-109: one entry, 'time' being the hour of the day
forecast_entry(hourly, i) ==
    [time |-> hourly.time[i] % 24,
     temperature |-> hourly.temperature_2m[i],
     humidity    |-> hourly.relativehumidity_2m[i],
     cloud_cover |-> hourly.cloudcover[i]]

\* an index past the end of one of the value lists: IndexError
forecast_raises(hourly, first, last) ==
    \E i \in first..last : i > Len(hourly.temperature_2m)

\* _generate_mock_forecast: tenths of a degree, per cent, per cent, by hour
MockTemperature ==
    <<135, 142, 150, 158, 165, 171, 176, 179, 180, 179, 176, 171,
      165, 158, 150, 142, 135, 129, 124, 121, 120, 121, 124, 129>>

MockHumidity ==
    <<43, 41, 40, 41, 43, 46, 50, 55, 60, 65, 70, 74,
      77, 79, 80, 79, 77, 74, 70, 65, 60, 55, 50, 46>>

MockCloud ==
    <<20, 28, 29, 21, 12, 10, 17, 27, 30, 24, 15, 10,
      15, 24, 30, 27, 17, 10, 12, 21, 29, 28, 20, 12>>

generate_mock_forecast(t) ==
    [i \in 1..forecast_hours |->
        LET h == ((current_hour(t) % 24) + i - 1) % 24
        IN  [time |-> h, temperature |-> MockTemperature[h + 1],
             humidity |-> MockHumidity[h + 1], cloud_cover |-> MockCloud[h + 1]]]

\* WeatherService.get_hourly_forecast at time t, answer being what
\* requests.get gives: the return value, the two cache fields afterwards
\* and the requests made
get_hourly_forecast(cache, cache_time, t, answer) ==
    IF cache # None /\ cache.value # <<>> /\ cache_time # None /\ cache_fresh(cache_time, t)
    THEN [ret |-> cache.value, forecast_cache |-> cache, forecast_cache_time |-> cache_time,
          requests |-> <<>>]
    ELSE LET sent == <<[to |-> "open_meteo_hourly", result |-> answer]>>
         IN  IF answer.raises
             THEN [ret |-> generate_mock_forecast(t), forecast_cache |-> cache,
                   forecast_cache_time |-> cache_time, requests |-> sent]
             ELSE IF answer.status_code # 200
             THEN [ret |-> <<>>, forecast_cache |-> cache,
                   forecast_cache_time |-> cache_time, requests |-> sent]
             ELSE
               LET times == answer.hourly.time
                   first == start_idx(times, current_hour(t))
                   last  == IF first + forecast_hours - 1 < Len(times)
                            THEN first + forecast_hours - 1 ELSE Len(times)
                   forecast == [j \in 1..(IF last >= first THEN last - first + 1 ELSE 0) |->
                                   forecast_entry(answer.hourly, first + j - 1)]
               IN  IF forecast_raises(answer.hourly, first, last)
                   THEN [ret |-> generate_mock_forecast(t), forecast_cache |-> cache,
                         forecast_cache_time |-> cache_time, requests |-> sent]
                   ELSE [ret |-> forecast, forecast_cache |-> Some(forecast),
                         forecast_cache_time |-> Some(t), requests |-> sent]

\* weather['forecast'] = forecast
with_forecast(weather, forecast) ==
    [k \in DOMAIN weather \cup {"forecast"} |->
        IF k = "forecast" THEN forecast ELSE weather[k]]

\* lines 49-50: the order in which a refresh writes the two cache fields
weather_store_order_time_first == <<"weather_cache_time", "weather_cache">>

weather_store_order == <<"weather_cache", "weather_cache_time">>

\* the threads that serve requests
Threads == 1..MaxThreads

\* ------------------------------------------------------------------- init
\* no call is in progress: the locals of the last call are gone
Idle ==
    /\ op = "idle"
    /\ point_arg = 0
    /\ azimuth_arg = 0
    /\ can_observe_ret = FALSE
    /\ preferences = None
    /\ weights = None
    /\ star_name = ""
    /\ star_info = None
    /\ calls = <<>>
    /\ ranked_points = <<>>
    /\ result = None
    /\ response = None
    /\ score_locals = None
    /\ target_azimuth = None
    /\ target_altitude = None
    /\ valid_spots = <<>>
    /\ max_ele = 0
    /\ occluded = {}
    /\ total_scores = <<>>
    /\ scored_spots = <<>>
    /\ spots = <<>>
    /\ requests = <<>>
    /\ weather_ret = None
    /\ forecast_ret = <<>>
    /\ raised = FALSE

\* WeatherService.__init__, and no thread inside the service
WeatherServiceInit ==
    /\ now = 0
    /\ weather_cache = None
    /\ weather_cache_time = None
    /\ forecast_cache = None
    /\ forecast_cache_time = None
    /\ pc = [t \in Threads |-> "idle"]
    /\ weather_info = [t \in Threads |-> None]
    /\ thread_ret = [t \in Threads |-> None]

\* StarObservationSelector.__init__ / load_data
Init ==
    /\ observation_points \in SeqsUpTo(PointSet, MaxPoints)
    /\ terrain_cache = NoCacheFile
    /\ Idle
    /\ WeatherServiceInit

\* a call of point.can_observe_azimuth(azimuth) on a loaded point
CanObserveAzimuth ==
    \E i \in 1..Len(observation_points), a \in AzimuthArgs :
        /\ op = "idle"
        /\ op' = "can_observe_azimuth"
        /\ point_arg' = i
        /\ azimuth_arg' = a
        /\ can_observe_ret' = can_observe_azimuth(observation_points[i], a)
        /\ preferences' = None
        /\ weights' = None
        /\ star_name' = ""
        /\ star_info' = None
        /\ calls' = <<>>
        /\ ranked_points' = <<>>
        /\ result' = None
        /\ response' = None
        /\ score_locals' = None
        /\ UNCHANGED <<observation_points, terrain_vars, weather_vars>>

\* a call of selector.recommend_for_star(star_name) (main, line 593)
RecommendForStar ==
    \E name \in StarNames :
      \E info \in get_star_info(name) :
        LET r == recommend_for_star(observation_points, info)
        IN  /\ op = "idle"
            /\ op' = "recommend_for_star"
            /\ star_name' = name
            /\ star_info' = info
            /\ calls' = r.calls
            /\ ranked_points' = r.ranked
            /\ result' = r.result
            /\ point_arg' = 0
            /\ azimuth_arg' = 0
            /\ can_observe_ret' = FALSE
            /\ preferences' = None
            /\ weights' = None
            /\ response' = None
            /\ score_locals' = None
        /\ UNCHANGED <<observation_points, terrain_vars, weather_vars>>

\* a call of selector.calculate_score(point, azimuth, altitude) on a loaded
\* point, with a target that get_star_info reported
CalculateScore ==
    \E i \in 1..Len(observation_points), az \in TargetAzimuths, alt \in TargetAltitudes :
        /\ op = "idle"
        /\ op' = "calculate_score"
        /\ point_arg' = i
        /\ azimuth_arg' = az
        /\ score_locals' = calculate_score_locals(observation_points[i], az, alt)
        /\ can_observe_ret' = FALSE
        /\ preferences' = None
        /\ weights' = None
        /\ star_name' = ""
        /\ star_info' = None
        /\ calls' = <<>>
        /\ ranked_points' = <<>>
        /\ result' = None
        /\ response' = None
        /\ UNCHANGED <<observation_points, terrain_vars, weather_vars>>

\* the caller has consumed the return value (main's loop, line 573; the end
\* of a request): the frame of the call is dropped
Return ==
    /\ op # "idle"
    /\ op' = "idle"
    /\ point_arg' = 0
    /\ azimuth_arg' = 0
    /\ can_observe_ret' = FALSE
    /\ preferences' = None
    /\ weights' = None
    /\ star_name' = ""
    /\ star_info' = None
    /\ calls' = <<>>
    /\ ranked_points' = <<>>
    /\ result' = None
    /\ response' = None
    /\ score_locals' = None
    /\ target_azimuth' = None
    /\ target_altitude' = None
    /\ valid_spots' = <<>>
    /\ max_ele' = 0
    /\ occluded' = {}
    /\ total_scores' = <<>>
    /\ scored_spots' = <<>>
    /\ spots' = <<>>
    /\ requests' = <<>>
    /\ weather_ret' = None
    /\ forecast_ret' = <<>>
    /\ raised' = FALSE
    /\ UNCHANGED <<observation_points, terrain_cache, shared_weather, pc,
                   weather_info, thread_ret>>

\* a call of calculate_ahp_weights(preferences)
CalculateAhpWeights ==
    \E prefs \in PreferenceSet :
        /\ op = "idle"
        /\ op' = "calculate_ahp_weights"
        /\ preferences' = prefs
        /\ weights' = calculate_ahp_weights(prefs)
        /\ point_arg' = 0
        /\ azimuth_arg' = 0
        /\ can_observe_ret' = FALSE
        /\ star_name' = ""
        /\ star_info' = None
        /\ calls' = <<>>
        /\ ranked_points' = <<>>
        /\ result' = None
        /\ response' = None
        /\ score_locals' = None
        /\ UNCHANGED <<observation_points, terrain_vars, weather_vars>>

\* a POST /api/search request
SearchStar ==
    \E name \in StarNames \cup {""}, prefs \in SearchPreferences :
        LET h == search_star_head(name, prefs)
        IN  /\ op = "idle"
            /\ op' = "search_star"
            /\ star_name' = name
            /\ preferences' = prefs
            /\ weights' = h.weights
            /\ IF h.response # None
               THEN /\ response' = h.response
                    /\ star_info' = None
                    /\ calls' = <<>>
                    /\ ranked_points' = <<>>
                    /\ result' = None
               ELSE \E info \in get_star_info(name), weather \in WeatherOutcomes :
                      LET r == recommend_for_star(observation_points, info)
                      IN  /\ response' = search_star_tail(r.result, weather)
                          /\ star_info' = info
                          /\ calls' = r.calls
                          /\ ranked_points' = r.ranked
                          /\ result' = r.result
            /\ point_arg' = 0
            /\ azimuth_arg' = 0
            /\ can_observe_ret' = FALSE
            /\ score_locals' = None
        /\ UNCHANGED <<observation_points, terrain_vars, weather_vars>>

Next == CanObserveAzimuth \/ CalculateScore \/ RecommendForStar \/ SearchStar \/ Return

Spec == Init /\ [][Next]_vars

\* the weight resolver on its own, with the points of one data file loaded
InitAhp ==
    /\ observation_points = <<Pt("A", 1, 5, "easy", 350, 10, 0)>>
    /\ terrain_cache = NoCacheFile
    /\ Idle
    /\ WeatherServiceInit

NextAhp == CalculateAhpWeights \/ Return

SpecAhp == InitAhp /\ [][NextAhp]_vars

\* a GET /api/wild-spots request (app.py, get_wild_spots): the query's
\* azimuth and altitude, each optional, go to terrain_service.get_wild_spots
GetWildSpots ==
    \E az \in WildAzimuths, alt \in WildAltitudes :
        LET r == get_wild_spots(terrain_cache, az, alt)
        IN  /\ op = "idle"
            /\ op' = "get_wild_spots"
            /\ target_azimuth' = az
            /\ target_altitude' = alt
            /\ valid_spots' = r.valid_spots
            /\ max_ele' = r.max_ele
            /\ occluded' = r.occluded
            /\ total_scores' = r.total_scores
            /\ scored_spots' = r.scored_spots
            /\ spots' = r.spots
            /\ UNCHANGED weather_vars
            /\ UNCHANGED <<observation_points, terrain_cache, point_arg, azimuth_arg,
                           can_observe_ret, preferences, weights, star_name, star_info,
                           calls, ranked_points, result, response, score_locals>>

\* the terrain analyzer on its own, over every cache file of TerrainCaches
InitTerrain ==
    /\ observation_points = <<Pt("A", 1, 5, "easy", 350, 10, 0)>>
    /\ terrain_cache \in TerrainCaches
    /\ Idle
    /\ WeatherServiceInit

NextTerrain == GetWildSpots \/ Return

SpecTerrain == InitTerrain /\ [][NextTerrain]_vars

\* ------------------------------------------------- weather state machine
\* a call of weather_service.get_current_weather()
GetCurrentWeather ==
    \E primary \in PrimaryOutcomes, fallback \in FallbackOutcomes :
        LET r == get_current_weather(weather_cache, weather_cache_time, now, primary, fallback)
        IN  /\ op = "idle"
            /\ op' = "get_current_weather"
            /\ weather_ret' = r.ret
            /\ weather_cache' = r.weather_cache
            /\ weather_cache_time' = r.weather_cache_time
            /\ requests' = r.requests
            /\ raised' = r.raised
            /\ UNCHANGED <<now, forecast_cache, forecast_cache_time, forecast_ret,
                           pc, weather_info, thread_ret>>
            /\ UNCHANGED <<observation_points, terrain_vars, selector_locals>>

\* a call of weather_service.get_hourly_forecast()
GetHourlyForecast ==
    \E answer \in ForecastAnswers :
        LET r == get_hourly_forecast(forecast_cache, forecast_cache_time, now, answer)
        IN  /\ op = "idle"
            /\ op' = "get_hourly_forecast"
            /\ forecast_ret' = r.ret
            /\ forecast_cache' = r.forecast_cache
            /\ forecast_cache_time' = r.forecast_cache_time
            /\ requests' = r.requests
            /\ raised' = FALSE
            /\ UNCHANGED <<now, weather_cache, weather_cache_time, weather_ret,
                           pc, weather_info, thread_ret>>
            /\ UNCHANGED <<observation_points, terrain_vars, selector_locals>>

\* a GET /api/weather request (app.py, get_weather): the dict that
\* get_current_weather returned is the dict the cache holds, so the
\* assignment of line 389 writes into the cached dict
GetWeather ==
    \E primary \in PrimaryOutcomes, fallback \in FallbackOutcomes, answer \in ForecastAnswers :
        LET w == get_current_weather(weather_cache, weather_cache_time, now, primary, fallback)
            f == get_hourly_forecast(forecast_cache, forecast_cache_time, now, answer)
        IN  /\ op = "idle"
            /\ op' = "get_weather"
            /\ weather_cache_time' = w.weather_cache_time
            /\ raised' = FALSE
            /\ IF w.ret # None
               THEN /\ weather_ret' = with_forecast(w.ret, f.ret)
                    /\ weather_cache' = with_forecast(w.weather_cache, f.ret)
                    /\ forecast_ret' = f.ret
                    /\ forecast_cache' = f.forecast_cache
                    /\ forecast_cache_time' = f.forecast_cache_time
                    /\ requests' = w.requests \o f.requests
                    /\ response' = [status |-> 200, body |-> with_forecast(w.ret, f.ret)]
               ELSE /\ weather_ret' = None
                    /\ weather_cache' = w.weather_cache
                    /\ forecast_ret' = <<>>
                    /\ UNCHANGED <<forecast_cache, forecast_cache_time>>
                    /\ requests' = w.requests
                    /\ response' = [status |-> 503, error |-> "no weather data"]
            /\ UNCHANGED <<now, pc, weather_info, thread_ret>>
            /\ UNCHANGED <<observation_points, terrain_vars, point_arg, azimuth_arg,
                           can_observe_ret, preferences, weights, star_name, star_info,
                           calls, ranked_points, result, score_locals>>

\* time passes between two calls
Tick ==
    /\ op = "idle"
    /\ \A t \in Threads : pc[t] = "idle"
    /\ now < MaxTicks * (cache_duration \div 2)
    /\ now' = now + cache_duration \div 2
    /\ UNCHANGED <<weather_cache, weather_cache_time, forecast_cache, forecast_cache_time,
                   requests, weather_ret, forecast_ret, raised, pc, weather_info, thread_ret>>
    /\ UNCHANGED <<op, observation_points, terrain_vars, selector_locals>>

\* the weather service on its own, one call at a time
InitWeather ==
    /\ observation_points = <<Pt("A", 1, 5, "easy", 350, 10, 0)>>
    /\ terrain_cache = NoCacheFile
    /\ Idle
    /\ WeatherServiceInit

NextWeather == GetCurrentWeather \/ GetHourlyForecast \/ GetWeather \/ Tick \/ Return

SpecWeather == InitWeather /\ [][NextWeather]_vars

\* ---- get_current_weather in several threads, statement by statement
\* what the steps of a thread leave alone: the variables of the other calls
race_frame == <<op, requests, weather_ret, forecast_ret, raised, observation_points,
                terrain_vars, selector_locals>>

\* a thread enters get_current_weather
CallWeather(t) ==
    /\ pc[t] = "idle"
    /\ pc' = [pc EXCEPT ![t] = "check"]
    /\ UNCHANGED <<weather_info, thread_ret>>
    /\ UNCHANGED shared_weather
    /\ UNCHANGED race_frame

\* lines 26-27: the test of the two cache fields
CheckCache(t) ==
    /\ pc[t] = "check"
    /\ pc' = [pc EXCEPT ![t] =
                IF /\ weather_cache # None
                   /\ weather_cache_time # None
                   /\ cache_fresh(weather_cache_time, now)
                THEN "return_cached" ELSE "fetch"]
    /\ UNCHANGED <<weather_info, thread_ret>>
    /\ UNCHANGED shared_weather
    /\ UNCHANGED race_frame

\* line 28: return self._weather_cache, read again
ReturnCached(t) ==
    /\ pc[t] = "return_cached"
    /\ thread_ret' = [thread_ret EXCEPT ![t] = weather_cache]
    /\ pc' = [pc EXCEPT ![t] = "done"]
    /\ UNCHANGED weather_info
    /\ UNCHANGED shared_weather
    /\ UNCHANGED race_frame

\* lines 30-46: the network answers; the dict is built, or the call ends
\* with None (line 39, or the except of line 54)
FetchWeather(t) ==
    \E primary \in PrimaryOutcomes, fallback \in FallbackOutcomes :
        LET r == refresh_weather(now, primary, fallback)
        IN  /\ pc[t] = "fetch"
            /\ IF r.exception \/ r.info = None
               THEN /\ pc' = [pc EXCEPT ![t] = "done"]
                    /\ UNCHANGED <<weather_info, thread_ret>>
               ELSE /\ pc' = [pc EXCEPT ![t] = "store"]
                    /\ weather_info' = [weather_info EXCEPT ![t] = r.info]
                    /\ UNCHANGED thread_ret
            /\ UNCHANGED shared_weather
            /\ UNCHANGED race_frame

\* the assignment of one cache field
StoreField(t, field) ==
    IF field = "weather_cache"
    THEN /\ weather_cache' = weather_info[t]
         /\ UNCHANGED weather_cache_time
    ELSE /\ weather_cache_time' = Some(now)
         /\ UNCHANGED weather_cache

\* line 49
StoreFirst(t) ==
    /\ pc[t] = "store"
    /\ StoreField(t, weather_store_order[1])
    /\ pc' = [pc EXCEPT ![t] = "store_second"]
    /\ UNCHANGED <<weather_info, thread_ret>>
    /\ UNCHANGED <<now, forecast_cache, forecast_cache_time>>
    /\ UNCHANGED race_frame

\* lines 50-52
StoreSecond(t) ==
    /\ pc[t] = "store_second"
    /\ StoreField(t, weather_store_order[2])
    /\ thread_ret' = [thread_ret EXCEPT ![t] = weather_info[t]]
    /\ pc' = [pc EXCEPT ![t] = "done"]
    /\ UNCHANGED weather_info
    /\ UNCHANGED <<now, forecast_cache, forecast_cache_time>>
    /\ UNCHANGED race_frame

\* the caller has the return value: the frame is dropped
FinishWeather(t) ==
    /\ pc[t] = "done"
    /\ pc' = [pc EXCEPT ![t] = "idle"]
    /\ weather_info' = [weather_info EXCEPT ![t] = None]
    /\ thread_ret' = [thread_ret EXCEPT ![t] = None]
    /\ UNCHANGED shared_weather
    /\ UNCHANGED race_frame

\* time passes while every thread is between two calls or waits for the
\* network; the statements before and after the fetch take no time
TickRace ==
    /\ \A t \in Threads : pc[t] \in {"idle", "fetch"}
    /\ now < MaxTicks * (cache_duration \div 2)
    /\ now' = now + cache_duration \div 2
    /\ UNCHANGED <<weather_cache, weather_cache_time, forecast_cache, forecast_cache_time,
                   pc, weather_info, thread_ret>>
    /\ UNCHANGED race_frame

NextRace ==
    \/ \E t \in Threads : CallWeather(t)
    \/ \E t \in Threads : CheckCache(t)
    \/ \E t \in Threads : ReturnCached(t)
    \/ \E t \in Threads : FetchWeather(t)
    \/ \E t \in Threads : StoreFirst(t)
    \/ \E t \in Threads : StoreSecond(t)
    \/ \E t \in Threads : FinishWeather(t)
    \/ TickRace


SpecRace == InitWeather /\ [][NextRace]_vars

\* ================================================================ claims
\* the azimuth brought into 0 <= n < 360
Normalized(az) == CHOOSE n \in 0..359 : (az - n) % 360 = 0

HasWindow(point, vs, ve) == point.view_start = vs /\ point.view_end = ve

\* C1: can_observe_azimuth normalizes the azimuth to [0,360) and answers
\* true exactly when the azimuth lies in the window, both ends included: for
\* view_start <= view_end that is view_start <= az <= view_end, for a
\* wrapping window az >= view_start or az <= view_end.  Window (350,10)
\* holds 0, 355 and 5 but not 180; window (30,90) holds 60 but not 10, 100.
C1_CanObserve ==
    op = "can_observe_azimuth" =>
        LET point == observation_points[point_arg]
            az == Normalized(azimuth_arg)
            inside == IF point.view_start <= point.view_end
                      THEN az \in point.view_start..point.view_end
                      ELSE az \in (point.view_start..359) \cup (0..point.view_end)
        IN  /\ can_observe_ret = inside
            /\ HasWindow(point, 350, 10) /\ azimuth_arg \in {0, 355, 5} => can_observe_ret
            /\ HasWindow(point, 350, 10) /\ azimuth_arg = 180 => ~can_observe_ret
            /\ HasWindow(point, 30, 90) /\ azimuth_arg = 60 => can_observe_ret
            /\ HasWindow(point, 30, 90) /\ azimuth_arg \in {10, 100} => ~can_observe_ret

\* a wrapping window asked about an azimuth beyond 360 that it holds
C1_Witness ==
    /\ op = "can_observe_azimuth"
    /\ HasWindow(observation_points[point_arg], 350, 10)
    /\ azimuth_arg = 365
    /\ can_observe_ret

Covers(az) == { i \in 1..Len(observation_points) :
                    can_observe_azimuth(observation_points[i], az) }

\* C2: a target whose altitude is <= 0 gets None from recommend_for_star,
\* and neither find_suitable_points nor rank_points runs, whatever points
\* are loaded.
C2_BelowHorizon ==
    (op = "recommend_for_star" /\ star_info # None /\ star_info.altitude <= 0) =>
        /\ result = None
        /\ calls = <<"get_star_info">>
        /\ ranked_points = <<>>

\* a target exactly on the horizon, in the window of a loaded point
C2_Witness ==
    /\ op = "recommend_for_star"
    /\ star_info # None
    /\ star_info.altitude = 0
    /\ Covers(star_info.azimuth) # {}
    /\ result = None

\* C3: recommend_for_star returns None when the name is not resolved and
\* when the target is above the horizon but no loaded point's window covers
\* its azimuth; a recommendation never has an empty list.
C3_NotFound ==
    op = "recommend_for_star" =>
        /\ star_info = None => result = None
        /\ (star_info # None /\ star_info.altitude > 0 /\ Covers(star_info.azimuth) = {})
               => result = None
        /\ result # None => Len(result.all_points) > 0

\* points are loaded, the target is up, and none of them covers it
C3_Witness ==
    /\ op = "recommend_for_star"
    /\ star_info # None
    /\ star_info.altitude > 0
    /\ Len(observation_points) > 1
    /\ Covers(star_info.azimuth) = {}
    /\ result = None

\* C4: the ranked list is in non-increasing order of score, and points of
\* equal score keep their load order.
C4_StableRanking ==
    op = "recommend_for_star" =>
        \A i, j \in 1..Len(ranked_points) :
            i < j =>
                /\ RLeq(ranked_points[j].score, ranked_points[i].score)
                /\ ranked_points[i].score = ranked_points[j].score
                       => ranked_points[i].point < ranked_points[j].point

\* a ranking with two points of equal score and a third of another score
C4_Witness ==
    /\ op = "recommend_for_star"
    /\ Len(ranked_points) = 3
    /\ \E i, j, k \in 1..3 :
          /\ i # j
          /\ ranked_points[i].score = ranked_points[j].score
          /\ observation_points[ranked_points[i].point] # observation_points[ranked_points[j].point]
          /\ ranked_points[k].score # ranked_points[i].score

\* C9: a recommendation's best_point is the first entry of all_points and
\* no entry scores higher; all_points holds exactly the loaded points that
\* can observe the target azimuth, each once.
C9_BestAndAll ==
    (op = "recommend_for_star" /\ result # None) =>
        /\ result.best_point = result.all_points[1]
        /\ \A k \in 1..Len(result.all_points) :
               RLeq(result.all_points[k].score, result.best_point.score)
        /\ Len(result.all_points) = Len(ranked_points)
        /\ { ranked_points[k].point : k \in 1..Len(ranked_points) }
               = Covers(star_info.azimuth)
        /\ Cardinality(Covers(star_info.azimuth)) = Len(ranked_points)
        /\ \A k \in 1..Len(ranked_points) :
               result.all_points[k] =
                   PointEntry(observation_points[ranked_points[k].point],
                              ranked_points[k].score)

\* a recommendation of two points of different score, a third point left out
C9_Witness ==
    /\ op = "recommend_for_star"
    /\ result # None
    /\ Len(result.all_points) = 2
    /\ Len(observation_points) = 3
    /\ result.all_points[1].score # result.all_points[2].score

\* the six ratios of the last calculate_ahp_weights call
LastRatios == Ratios(preferences)

AllPositive(r) == \A k \in 1..6 : r[k][1] > 0

WeightsOf(w) == <<w.location, w.view, w.difficulty, w.light_pollution>>

\* C5: when calculate_ahp_weights returns None (a ratio of 0), the search
\* request still ends as a recommendation (200) or as NotFound (404), never
\* as a server error.
C5_FallbackToDefaults ==
    (op = "search_star" /\ star_name # "" /\ preferences # None /\ weights = None) =>
        response.status \in {200, 404}

\* the 0..100 sub-scores of a point
GeoSub(point, az) == RMul(location_match_score(point, az), <<100, 40>>)
ViewSub(point, az) == RMul(view_position_score(point, az), <<100, 40>>)
DiffSub(point) == Rat(100 - difficulty_val(point))

WeightedTotal(w, point, az, lp) ==
    RAdd(RAdd(RMul(w.location, GeoSub(point, az)), RMul(w.view, ViewSub(point, az))),
         RAdd(RMul(w.difficulty, DiffSub(point)), RMul(w.light_pollution, Rat(lp))))

\* C6: when a request supplies a preference matrix, the weights derived
\* from it are the ones every candidate is scored with: the request is
\* answered, and each score of a recommendation is the sum of the four
\* sub-scores weighted by the resolved weights.
C6_ResolvedWeightsUsed ==
    (op = "search_star" /\ star_name # "" /\ preferences # None /\ weights # None) =>
        /\ response.status \in {200, 404}
        /\ response.status = 200 =>
             \A k \in 1..Len(response.all_points) :
                \E lp \in 0..100 :
                    response.all_points[k].score =
                        WeightedTotal(weights, observation_points[ranked_points[k].point],
                                      star_info.azimuth, lp)

\* C7: for six positive ratios calculate_ahp_weights returns four weights,
\* none negative, that sum to 1 (exactly, in rational arithmetic); with all
\* six ratios 1 every weight is 1/4.
C7_WeightsNormalized ==
    (op = "calculate_ahp_weights" /\ AllPositive(LastRatios)) =>
        /\ weights # None
        /\ \A i \in 1..4 : WeightsOf(weights)[i][1] >= 0
        /\ Sum4(WeightsOf(weights)) = Rat(1)
        /\ (\A k \in 1..6 : LastRatios[k] = Rat(1)) =>
               \A i \in 1..4 : WeightsOf(weights)[i] = <<1, 4>>

\* positive ratios that are not all alike, and weights that differ
C7_Witness ==
    /\ op = "calculate_ahp_weights"
    /\ AllPositive(LastRatios)
    /\ LastRatios[1] = Rat(MaxRatio)
    /\ LastRatios[6] = <<1, MaxRatio>>
    /\ weights # None
    /\ weights.location # weights.light_pollution

\* C8: calculate_ahp_weights returns None when one of the six ratios is 0,
\* and returns a weight record whenever all six are positive.
C8_FailsOnZeroOnly ==
    op = "calculate_ahp_weights" =>
        /\ (\E k \in 1..6 : LastRatios[k][1] = 0) => weights = None
        /\ AllPositive(LastRatios) => weights # None

\* one ratio is 0, the other five are positive
C8_Witness ==
    /\ op = "calculate_ahp_weights"
    /\ DOMAIN preferences = AhpKeys
    /\ LastRatios[4][1] = 0
    /\ \A k \in (1..6) \ {4} : LastRatios[k][1] > 0
    /\ weights = None

HasBreakdown(entry) ==
    /\ "score_details" \in DOMAIN entry
    /\ "weather" \in DOMAIN entry.score_details

\* C10: the best point and every point of the ranked list of a returned
\* recommendation carry a score breakdown that includes the weather
\* contribution.
C10_ScoreBreakdown ==
    /\ (op = "recommend_for_star" /\ result # None) =>
          /\ HasBreakdown(result.best_point)
          /\ \A k \in 1..Len(result.all_points) : HasBreakdown(result.all_points[k])
    /\ (op = "search_star" /\ response.status = 200) =>
          /\ HasBreakdown(response.best_point)
          /\ \A k \in 1..Len(response.all_points) : HasBreakdown(response.all_points[k])

\* ------------------------------------------------ claims on calculate_score
\* the point and the sub-scores (0..100) of the last calculate_score call
ScoredPoint == observation_points[point_arg]
GeoOf(l) == RMul(l.location_match_score, <<100, 40>>)
ViewOf(l) == RMul(l.view_position_score, <<100, 40>>)
DiffOf(l) == RMul(l.difficulty_score, <<100, 20>>)

InZeroToHundred(x) == RLeq(Rat(0), x) /\ RLeq(x, Rat(100))

\* C11: every sub-score of calculate_score lies in [0,100] once its weight
\* is divided out, and the total is the convex combination 0.4, 0.4, 0.2 of
\* the sub-scores, so it lies between 0 and the largest sub-score and never
\* above 100.
C11_ScoresBounded ==
    op = "calculate_score" =>
        LET g == GeoOf(score_locals)
            v == ViewOf(score_locals)
            d == DiffOf(score_locals)
            t == score_locals.total_score
        IN  /\ InZeroToHundred(g)
            /\ InZeroToHundred(v)
            /\ InZeroToHundred(d)
            /\ t = RAdd(RAdd(RMul(<<4, 10>>, g), RMul(<<4, 10>>, v)), RMul(<<2, 10>>, d))
            /\ RLeq(Rat(0), t)
            /\ RLeq(t, RMax(g, RMax(v, d)))
            /\ RLeq(t, Rat(100))

\* a target outside the point's window: the view sub-score is clamped to 0
C11_Witness ==
    /\ op = "calculate_score"
    /\ ~can_observe_azimuth(ScoredPoint, azimuth_arg)
    /\ score_locals.view_position_score = Rat(0)
    /\ score_locals.location_match_score # Rat(0)

\* C12: with three points of windows [0,120], [120,240], [240,360] loaded
\* and a target at azimuth 200, altitude 30, the candidate list is exactly
\* the second point and it is the best point.
ThreeSectors ==
    /\ Len(observation_points) = 3
    /\ HasWindow(observation_points[1], 0, 120)
    /\ HasWindow(observation_points[2], 120, 240)
    /\ HasWindow(observation_points[3], 240, 360)

C12_EndToEnd ==
    (/\ op = "recommend_for_star"
     /\ ThreeSectors
     /\ star_info # None
     /\ star_info.azimuth = 200
     /\ star_info.altitude = 30) =>
        /\ result # None
        /\ Len(result.all_points) = 1
        /\ ranked_points[1].point = 2
        /\ result.all_points[1].name = observation_points[2].name
        /\ result.best_point = result.all_points[1]
        /\ result.best_point.view_start = 120
        /\ result.best_point.view_end = 240

\* the three sectors, the target at 200 / 30, and a recommendation
C12_Witness ==
    /\ op = "recommend_for_star"
    /\ ThreeSectors
    /\ star_info # None
    /\ star_info.azimuth = 200
    /\ star_info.altitude = 30
    /\ result # None

\* the angular distance of two whole-degree directions, at most 180
AngularDistance(a, b) == IF Abs(a - b) > 180 THEN 360 - Abs(a - b) ELSE Abs(a - b)

\* C13: the geographic sub-score is 100 * max(0, 1 - d/180) for the angular
\* distance d between the target azimuth and the point's bearing from the
\* centroid: 100 when they are equal, 0 when they are opposite.
C13_GeoAlignment ==
    op = "calculate_score" =>
        LET d == AngularDistance(azimuth_arg, ScoredPoint.bearing)
            g == GeoOf(score_locals)
        IN  /\ g = RMax(Rat(0), Norm(100 * (180 - d), 180))
            /\ azimuth_arg = ScoredPoint.bearing => g = Rat(100)
            /\ d = 180 => g = Rat(0)

\* a target opposite to the point's bearing, and one across north from it
C13_Witness ==
    /\ op = "calculate_score"
    /\ AngularDistance(azimuth_arg, ScoredPoint.bearing) = 180
    /\ score_locals.location_match_score = Rat(0)
    /\ \E i \in 1..Len(observation_points) :
          Abs(azimuth_arg - observation_points[i].bearing) > 180

\* twice the window centre, the clockwise arc, twice the distance to the centre
Centre2(point) ==
    IF point.view_start <= point.view_end
    THEN point.view_start + point.view_end
    ELSE (point.view_start + point.view_end + 360) % 720

Arc(point) ==
    IF point.view_start <= point.view_end
    THEN point.view_end - point.view_start
    ELSE point.view_end + 360 - point.view_start

Distance2(az, point) ==
    IF Abs(2 * az - Centre2(point)) > 360
    THEN 720 - Abs(2 * az - Centre2(point))
    ELSE Abs(2 * az - Centre2(point))

\* C14: the view sub-score is 100 * max(0, 1 - d/half_width) when the
\* half-width is > 0 and 100 when it is 0; the centre is (start+end)/2 for
\* a direct window and ((start+end+360)/2) mod 360 for a wrapping one, the
\* half-width half the clockwise arc, d the angular distance to the centre.
C14_ViewCentrality ==
    op = "calculate_score" =>
        LET arc == Arc(ScoredPoint)
            d2 == Distance2(azimuth_arg, ScoredPoint)
        IN  ViewOf(score_locals) =
                IF arc > 0
                THEN IF d2 >= arc THEN Rat(0) ELSE Norm(100 * (arc - d2), arc)
                ELSE Rat(100)

\* a wrapping window and a target inside it, off its centre
C14_Witness ==
    /\ op = "calculate_score"
    /\ ScoredPoint.view_start > ScoredPoint.view_end
    /\ can_observe_azimuth(ScoredPoint, azimuth_arg)
    /\ ViewOf(score_locals) = Rat(50)

\* C15: the accessibility sub-score is 100 minus the cost of the point's
\* difficulty: easy 20, medium 50, hard 80, anything else 50.
C15_Accessibility ==
    op = "calculate_score" =>
        LET cost == CASE ScoredPoint.difficulty = "easy" -> 20
                      [] ScoredPoint.difficulty = "medium" -> 50
                      [] ScoredPoint.difficulty = "hard" -> 80
                      [] OTHER -> 50
        IN  DiffOf(score_locals) = Rat(100 - cost)

\* a hard point: sub-score 20
C15_Witness ==
    /\ op = "calculate_score"
    /\ ScoredPoint.difficulty = "hard"
    /\ DiffOf(score_locals) = Rat(20)

\* ------------------------------------------------------- terrain claims
\* a get_wild_spots call has returned and its frame is still there
TerrainCall == op = "get_wild_spots"

BothGiven == target_azimuth # None /\ target_altitude # None

\* the positions in valid_spots of the samples that were scored
ScoredSamples == { scored_spots[j].sample : j \in 1..Len(scored_spots) }

\* the positions in valid_spots of the samples that were returned
ReturnedSamples == { spots[j].sample : j \in 1..Len(spots) }

\* the samples of the cache file above the water level
AboveWater == { i \in 1..Len(terrain_cache.data) :
                  terrain_cache.data[i].elevation > MIN_ELEVATION }

\* the angle between a bearing (thousandths of a degree) and an azimuth
\* (degrees), in thousandths of a degree
SectorDistance(bearing, az) ==
    LET d == (bearing - az * 1000) % 360000
    IN  IF d > 180000 THEN 360000 - d ELSE d

\* Q hides a target at (az, alt) from P: Q is strictly higher, at least
\* 10 m away, its bearing from P is less than 10 degrees off az, and its
\* elevation angle from P is above alt
Hides(Q, P, az, alt) ==
    LET dist == DistanceTable[P.site][Q.site]
    IN  /\ Q.elevation > P.elevation
        /\ dist >= 100
        /\ SectorDistance(BearingTable[P.site][Q.site], az) < 10000
        /\ (Q.elevation - P.elevation) * 100 > tan_milli(alt) * dist

C17_NoOcclusionCheck ==
    (TerrainCall /\ (target_azimuth = None \/ target_altitude = None
                       \/ target_altitude.value > 60)) =>
        /\ occluded = {}
        /\ Len(valid_spots) = Cardinality(AboveWater)
        /\ Len(scored_spots) = Len(valid_spots)
        /\ ScoredSamples = 1..Len(valid_spots)
        /\ \A k \in 1..Len(valid_spots) : valid_spots[k].elevation > MIN_ELEVATION

\* a target at 61 degrees over A with H (55 m, 12 m to the north, at an
\* elevation angle of 75 degrees) in the sector: A is scored and returned
C17_Witness ==
    /\ TerrainCall
    /\ terrain_cache.data = <<Sample("A", 1000), Sample("H", 5500)>>
    /\ target_azimuth = Some(0)
    /\ target_altitude = Some(61)
    /\ ReturnedSamples = {1, 2}

\* x > y for two total scores of one call
Higher(x, y) == RSub(x, y)[1] > 0

\* C18: the analyzer returns at most 10 spots, in non-increasing order of
\* composite score, and no scored sample left out of the result has a
\* strictly higher composite score than a returned one
C18_TopTen ==
    TerrainCall =>
        /\ Len(spots) <= 10
        /\ \A i, j \in 1..Len(spots) :
              i < j => ~Higher(total_scores[spots[j].sample], total_scores[spots[i].sample])
        /\ \A k \in ScoredSamples \ ReturnedSamples :
              \A j \in 1..Len(spots) :
                  ~Higher(total_scores[k], total_scores[spots[j].sample])

\* C19: no sample with elevation at or below MIN_ELEVATION is returned, is
\* among the valid samples that occlusion and the maximum elevation are
\* computed over, and when no sample is above MIN_ELEVATION the result is
\* empty
C19_WaterLevel ==
    TerrainCall =>
        /\ \A j \in 1..Len(spots) : spots[j].elevation > MIN_ELEVATION
        /\ \A k \in 1..Len(valid_spots) : valid_spots[k].elevation > MIN_ELEVATION
        /\ \A k \in occluded :
              \E q \in 1..Len(valid_spots) :
                  /\ valid_spots[q].elevation > MIN_ELEVATION
                  /\ Hides(valid_spots[q], valid_spots[k],
                           target_azimuth.value, target_altitude.value)
        /\ AboveWater # {} =>
              /\ \E i \in AboveWater : max_ele = terrain_cache.data[i].elevation
              /\ \A i \in AboveWater : max_ele >= terrain_cache.data[i].elevation
        /\ AboveWater = {} => spots = <<>>

\* a cache holding L, at exactly MIN_ELEVATION, next to higher samples
C19_Witness ==
    /\ TerrainCall
    /\ \E i \in 1..Len(terrain_cache.data) : terrain_cache.data[i] = Sample("L", 500)
    /\ spots # <<>>
    /\ \A j \in 1..Len(spots) : spots[j].site # "L"

\* the three sub-scores of a sample as the claim states them
ElevationScore(p) == Norm(100 * p.elevation, max_ele)

EdgeScore(p) ==
    IF CentreDistanceTable[p.site] > 100000 THEN Rat(100)
    ELSE Norm(CentreDistanceTable[p.site], 1000)

DirectionScore(p, az) ==
    LET d == SectorDistance(CentreBearingTable[p.site], az)
    IN  Norm(100 * (180000 - d), 180000)

Composite(p) ==
    IF target_azimuth # None
    THEN RDiv(RAdd(RAdd(RMul(Rat(3), ElevationScore(p)), EdgeScore(p)),
                   RMul(Rat(6), DirectionScore(p, target_azimuth.value))), Rat(10))
    ELSE RDiv(RAdd(RMul(Rat(7), ElevationScore(p)), RMul(Rat(3), EdgeScore(p))), Rat(10))

C27_HighestNeverOccluded ==
    TerrainCall =>
        /\ \A k \in 1..Len(valid_spots) :
              valid_spots[k].elevation = max_ele =>
                  k \notin occluded /\ k \in ScoredSamples
        /\ AboveWater # {} => spots # <<>>

\* a target due south at 10 degrees over A and B: A, lower and 50 m south
\* of B, stands in B's sector, B is the highest sample and is returned
C27_Witness ==
    /\ TerrainCall
    /\ terrain_cache.data = <<Sample("A", 1000), Sample("B", 5000)>>
    /\ target_azimuth = Some(180)
    /\ target_altitude = Some(10)
    /\ occluded = {}
    /\ ReturnedSamples = {1, 2}

\* ------------------------------------------- filter against centrality
\* the centrality factor of the last calculate_score call
CentralityOf(l) == RDiv(l.view_position_score, Rat(40))

AtWindowEdge ==
    \/ azimuth_arg % 360 = ScoredPoint.view_start % 360
    \/ azimuth_arg % 360 = ScoredPoint.view_end % 360

\* C28: for every point and every azimuth that can_observe_azimuth accepts,
\* the angular distance from the azimuth to the window centre is at most
\* the half-width, the centrality factor lies in [0,1], it is 1 at the
\* window centre, and it is 0 at view_start and at view_end
C28_FilterAgreesWithCentrality ==
    (op = "calculate_score" /\ can_observe_azimuth(ScoredPoint, azimuth_arg)) =>
        /\ Distance2(azimuth_arg, ScoredPoint) <= Arc(ScoredPoint)
        /\ RLeq(Rat(0), CentralityOf(score_locals))
        /\ RLeq(CentralityOf(score_locals), Rat(1))
        /\ 2 * azimuth_arg = Centre2(ScoredPoint) => CentralityOf(score_locals) = Rat(1)
        /\ AtWindowEdge => CentralityOf(score_locals) = Rat(0)

\* C28, amended: for every point and every azimuth that can_observe_azimuth
\* accepts, the angular distance to the window centre is at most the
\* half-width and the centrality factor lies in [0,1]; for a window of
\* positive width it is 1 at the centre only and 0 at view_start and
\* view_end only; a window of width 0 has the factor 1 at its only azimuth
C28_FilterAgreesWithCentralityPositiveWidth ==
    (op = "calculate_score" /\ can_observe_azimuth(ScoredPoint, azimuth_arg)) =>
        /\ Distance2(azimuth_arg, ScoredPoint) <= Arc(ScoredPoint)
        /\ RLeq(Rat(0), CentralityOf(score_locals))
        /\ RLeq(CentralityOf(score_locals), Rat(1))
        /\ Arc(ScoredPoint) > 0 =>
              /\ 2 * azimuth_arg = Centre2(ScoredPoint) <=> CentralityOf(score_locals) = Rat(1)
              /\ AtWindowEdge <=> CentralityOf(score_locals) = Rat(0)
        /\ Arc(ScoredPoint) = 0 => CentralityOf(score_locals) = Rat(1)

\* a target inside a window that runs through north, halfway between its
\* start and its centre
C28_Witness ==
    /\ op = "calculate_score"
    /\ ScoredPoint.view_start > ScoredPoint.view_end
    /\ can_observe_azimuth(ScoredPoint, azimuth_arg)
    /\ 2 * Distance2(azimuth_arg, ScoredPoint) = Arc(ScoredPoint)
    /\ CentralityOf(score_locals) = <<1, 2>>

\* ----------------------------------------------- degradation of a search
\* C23: a search for a target is answered whatever the weather source and
\* the light-pollution estimate do: never with a server error, and for an
\* observable target with the recommendation and its full ranking, the
\* weather score being the default 60 when no weather data came
C23_GracefulDegradation ==
    (op = "search_star" /\ star_name \in CatalogNames) =>
        /\ response.status \in {200, 404}
        /\ response.status = 200 =>
              /\ Len(response.all_points) = Len(ranked_points)
              /\ response.weather_info = None =>
                    \A k \in 1..Len(response.all_points) :
                        "score_details" \in DOMAIN response.all_points[k] =>
                            response.all_points[k].score_details.weather = 60

\* ------------------------------------------------------- weather cache
\* the step is a call of get_current_weather
CurrentWeatherCall == op = "idle" /\ op' = "get_current_weather"

\* before the call the cache holds a value stored less than 1800 s ago
CachedWithinTTL ==
    /\ weather_cache # None
    /\ weather_cache_time # None
    /\ now - weather_cache_time.value < cache_duration

\* C21: get_current_weather returns the cached value, contacting no
\* external source, exactly when a value was cached less than 1800 seconds
\* ago; otherwise it fetches, and a successful fetch stores the value
\* together with the current time; whatever it returns was fetched less
\* than 1800 seconds ago
C21_CacheTTL ==
    [][CurrentWeatherCall =>
        /\ CachedWithinTTL =>
              /\ requests' = <<>>
              /\ weather_ret' = weather_cache
              /\ UNCHANGED <<weather_cache, weather_cache_time>>
        /\ ~CachedWithinTTL =>
              /\ requests' # <<>>
              /\ weather_ret' # None =>
                    /\ weather_cache' = weather_ret'
                    /\ weather_cache_time' = Some(now)
        /\ weather_ret' # None => now - weather_ret'.fetched_at < cache_duration]_vars

C21_Witness ==
    /\ op = "get_current_weather"
    /\ requests = <<>>
    /\ weather_ret # None
    /\ now - weather_cache_time.value = cache_duration \div 2

\* ------------------------------------------------- failure of the sources
\* C24: get_current_weather never raises; when both sources fail it returns
\* None; the fallback source is asked only after the primary source
\* returned nothing; a refresh that fails leaves the cached value and its
\* timestamp as they were
C24_FailureIsContained ==
    [][CurrentWeatherCall =>
        /\ raised' = FALSE
        /\ \A k \in 1..Len(requests') :
              requests'[k].to = "sojson" =>
                  /\ k = 2
                  /\ requests'[1] = [to |-> "open_meteo", result |-> None]
        /\ (requests' # <<>> /\ \A k \in 1..Len(requests') : requests'[k].result = None)
              => weather_ret' = None
        /\ (requests' # <<>> /\ weather_ret' = None)
              => UNCHANGED <<weather_cache, weather_cache_time>>]_vars

C24_Witness ==
    /\ op = "get_current_weather"
    /\ weather_ret = None
    /\ Len(requests) = 2
    /\ weather_cache # None
    /\ now - weather_cache_time.value >= cache_duration

\* ------------------------------------------------------ forecast cache
\* the step is a call of get_hourly_forecast
ForecastCall == op = "idle" /\ op' = "get_hourly_forecast"

\* before the call a forecast, of any length, was stored less than 1800 s ago
ForecastCachedWithinTTL ==
    /\ forecast_cache # None
    /\ forecast_cache_time # None
    /\ now - forecast_cache_time.value < cache_duration

\* C25: once a forecast was fetched, every call of get_hourly_forecast made
\* less than 1800 seconds later returns the cached forecast and sends no
\* request, whatever the forecast holds, a forecast of zero entries
\* included; an answer other than 200 and an exception never write the cache
C25_ForecastCacheServed ==
    [][ForecastCall =>
        /\ ForecastCachedWithinTTL =>
              /\ requests' = <<>>
              /\ forecast_ret' = forecast_cache.value
        /\ \A k \in 1..Len(requests') :
              (requests'[k].result.raises \/ requests'[k].result.status_code # 200)
                  => UNCHANGED <<forecast_cache, forecast_cache_time>>]_vars

\* -------------------------------------------------- the cached weather value
\* the dicts a successful fetch at time t can store
StoredByFetch(t) ==
    { weather_with_score(info, t) :
        info \in { i \in (PrimaryOutcomes \cup FallbackOutcomes) \ {None} :
                       ~weather_score_raises(i) } }

\* C26: the cached weather value is the value its fetch stored; no handler,
\* /api/weather attaching the forecast included, changes the cached entry
C26_CachedValueUntouched ==
    weather_cache # None => weather_cache \in StoredByFetch(weather_cache.fetched_at)

\* ------------------------------------------------- the forecast window
\* the entries of a source from its first stamp that is not before hour on,
\* twelve at most and in the order of the source; none when every stamp is
\* before hour
ForecastWindow(hourly, hour) ==
    LET later == { i \in 1..Len(hourly.time) : hourly.time[i] >= hour }
    IN  IF later = {} THEN <<>>
        ELSE LET first == CHOOSE i \in later : \A j \in later : i <= j
                 rest  == Len(hourly.time) - first + 1
                 n     == IF rest < forecast_hours THEN rest ELSE forecast_hours
             IN  [k \in 1..n |-> forecast_entry(hourly, first + k - 1)]

\* the call fetched a forecast: the answer was a 200 and the forecast
\* built from it was stored and returned
ForecastFetched ==
    /\ requests # <<>>
    /\ ~requests[1].result.raises
    /\ requests[1].result.status_code = 200
    /\ forecast_cache = Some(forecast_ret)
    /\ forecast_cache_time = Some(now)

\* C29: a forecast that a successful fetch produced holds at most 12
\* consecutive hourly entries, in the order of the source, beginning with
\* the first source entry that is not earlier than the current hour; it
\* holds no entry earlier than the current hour
C29_ForecastWindow ==
    [][(ForecastCall /\ ForecastFetched') =>
        /\ Len(forecast_ret') <= forecast_hours
        /\ forecast_ret' = ForecastWindow(requests'[1].result.hourly, now \div 3600)]_vars

\* --------------------------------------------- concurrent weather calls
\* a complete weather dict, built by a fetch that succeeded at or before now
CompleteValue(w) ==
    /\ DOMAIN w = WeatherKeys
    /\ w \in StoredByFetch(w.fetched_at)
    /\ w.fetched_at <= now

\* C22: however concurrent calls of get_current_weather interleave, each
\* call returns None or a complete value that a successful fetch produced
\* less than 1800 seconds before; once every call has finished, the cache
\* holds a value and a timestamp that successful fetches wrote (or nothing)
C22_OnlyRedundantFetches ==
    /\ \A t \in Threads :
          (pc[t] = "done" /\ thread_ret[t] # None) =>
              /\ CompleteValue(thread_ret[t])
              /\ now - thread_ret[t].fetched_at < cache_duration
    /\ (\A t \in Threads : pc[t] = "idle") =>
          /\ weather_cache = None <=> weather_cache_time = None
          /\ weather_cache # None =>
                /\ CompleteValue(weather_cache)
                /\ weather_cache_time.value = weather_cache.fetched_at

\* two threads fetched and stored at the same time; one of them has
\* returned, the other returns the value it fetched itself while the cache
\* holds the other's
C22_Witness ==
    /\ pc[1] = "idle"
    /\ pc[2] = "done"
    /\ thread_ret[2] # None
    /\ weather_cache # None
    /\ weather_cache # thread_ret[2]
    /\ now > 0


====
